---------------------------- MODULE Spec2Model ----------------------------
(***************************************************************************)
(* State-machine model of sirius::Gvec (src/src/gvec.h): the enumeration   *)
(* of the z-columns of G-vectors inside the cutoff sphere, their           *)
(* distribution over the fine-grained ranks, the packed full index, the    *)
(* G-shells and the FFT-communicator tables rebuilt by prepare().          *)
(*                                                                         *)
(* Conventions.  C++ containers are 0-based; they are TLA+ sequences here  *)
(* and element i of the code is element i + 1 of the sequence.  The        *)
(* accessors below (At0, zcol, gvec, gvec_count ...) take the 0-based      *)
(* index of the code.                                                      *)
(*                                                                         *)
(* Real numbers.  The k-vector and the cutoff are doubles in the code.     *)
(* The model draws them from the half-integers and stores them doubled     *)
(* (vk = 2 k, Gmax = 2 Gmax__); the lattice matrices are integer matrices. *)
(* With such inputs every product and sum of the code is exact in double   *)
(* precision and, sqrt being monotone and exact on perfect squares,        *)
(*   vgk.length() <= Gmax__   <=>   |2 vgk|^2 <= (2 Gmax__)^2              *)
(* which is how the cutoff test is computed below.                         *)
(***************************************************************************)
EXTENDS Integers, Sequences, FiniteSets, TLC

VARIABLES
    \* constructor arguments / members set by the initializer list
    fft_box,            \* <<Nx, Ny, Nz>>: sizes of the FFT grid box
    vk,                 \* twice the k-vector
    lattice_vectors,    \* reciprocal lattice matrix M (rows)
    Gmax,               \* twice the cutoff Gmax__
    reduce_gvec,        \* reduce_gvec_
    num_ranks,          \* num_ranks_
    fft_comm,           \* *fft_comm_: [size, rank]
    \* members built by the constructor
    num_gvec,           \* num_gvec_
    z_columns,          \* z_columns_
    gvec_distr,         \* gvec_distr_
    zcol_distr,         \* zcol_distr_
    gvec_full_index,    \* gvec_full_index_
    gvec_index_by_xy,   \* gvec_index_by_xy_
    gvec_shell,         \* gvec_shell_
    gvec_shell_len,     \* gvec_shell_len_
    num_gvec_shells,    \* num_gvec_shells_
    gvec_distr_fft,     \* gvec_distr_fft_
    zcol_distr_fft,     \* zcol_distr_fft_
    gvec_fft_slab,      \* gvec_fft_slab_
    \* locals of the constructor that live across its loops
    zcols_local,        \* per-rank lists of columns
    ranks,              \* candidate ranks of the current round
    icol,               \* loop index i of the distribution loop
    \* control
    pc,                 \* position in the constructor / object life cycle
    msg,                \* message of TERMINATE, "" if none
    prepared            \* whether prepare() has been called on this Gvec

vars == <<fft_box, vk, lattice_vectors, Gmax, reduce_gvec, num_ranks, fft_comm,
          num_gvec, z_columns, gvec_distr, zcol_distr, gvec_full_index,
          gvec_index_by_xy, gvec_shell, gvec_shell_len, num_gvec_shells,
          gvec_distr_fft, zcol_distr_fft, gvec_fft_slab,
          zcols_local, ranks, icol, pc, msg, prepared>>

inputs == <<fft_box, vk, lattice_vectors, Gmax, reduce_gvec, num_ranks>>

\* what the constructor leaves alone while it runs
construction == <<inputs, prepared>>

-----------------------------------------------------------------------------
(* Bounds of the model and the input sets.                                 *)

\* largest FFT grid size per axis
MaxGrid == 5
\* largest number of fine-grained ranks (and largest FFT communicator size)
MaxRanks == 4

\* reciprocal lattice matrices tried: cubic and tetragonal
Cubic == <<<<1, 0, 0>>, <<0, 1, 0>>, <<0, 0, 1>>>>
Tetragonal == <<<<1, 0, 0>>, <<0, 1, 0>>, <<0, 0, 2>>>>

\* the (lattice, 2 k, 2 Gmax__) triples tried: k = 0, (1/2, 1/2, 1/2),
\* (0, 0, 3/2), (3/2, 0, 0) and (0, 0, -3/2); cutoffs 1, 3/2, 5/2 and one
\* that admits every grid box
Setups ==
    {<<Cubic, <<0, 0, 0>>, 40>>,
     <<Cubic, <<0, 0, 0>>, 5>>,
     <<Cubic, <<0, 0, 0>>, 2>>,
     <<Tetragonal, <<0, 0, 0>>, 5>>,
     <<Cubic, <<1, 1, 1>>, 5>>,
     <<Tetragonal, <<1, 1, 1>>, 40>>,
     <<Cubic, <<0, 0, 3>>, 2>>,
     <<Cubic, <<3, 0, 0>>, 2>>,
     <<Cubic, <<0, 0, -3>>, 3>>}

-----------------------------------------------------------------------------
(* Helpers on sequences.                                                   *)

At0(s, i) == s[i + 1]

\* s[1] + ... + s[n]
RECURSIVE SumTo(_, _)
SumTo(s, n) == IF n = 0 THEN 0 ELSE s[n] + SumTo(s, n - 1)

SumSeq(s) == SumTo(s, Len(s))

RECURSIVE Flatten(_)
Flatten(ss) == IF ss = <<>> THEN <<>> ELSE ss[1] \o Flatten(Tail(ss))

Range(s) == {s[i] : i \in DOMAIN s}

-----------------------------------------------------------------------------
(* FFT3D_grid: the grid box.  For a grid of N points along an axis the     *)
(* indices run over [N/2 - N + 1, N/2] and the FFT coordinate iz in        *)
(* [0, N) stands for the index iz (iz <= N/2) or iz - N (iz > N/2).        *)

grid_size(d) == fft_box[d + 1]

limits(d) ==
    [first  |-> (grid_size(d) \div 2) - grid_size(d) + 1,
     second |-> grid_size(d) \div 2]

gvec_by_coord(idx, d) ==
    IF idx > limits(d).second THEN idx - grid_size(d) ELSE idx

\* the (x, y) pairs of the box, i.e. the index set of a 2D table over it
BoxXY == (limits(0).first .. limits(0).second) \X (limits(1).first .. limits(1).second)

InBoxXY(a, b) == <<a, b>> \in BoxXY

-----------------------------------------------------------------------------
(* Vector arithmetic of the cutoff test.                                   *)

\* M * v for a matrix given by its rows
MatVec(M, v) == [r \in 1..3 |-> M[r][1] * v[1] + M[r][2] * v[2] + M[r][3] * v[3]]

\* |w|^2
SumSq(w) == w[1] * w[1] + w[2] * w[2] + w[3] * w[3]

\* |2 * M (G + k)|^2 for the integer triple G = (x, y, z)
GkLen2(x, y, z) ==
    SumSq(MatVec(lattice_vectors, <<2 * x + vk[1], 2 * y + vk[2], 2 * z + vk[3]>>))

\* variant with a fault: < in place of <=
InCutoffStrict(x, y, z) == Gmax >= 0 /\ GkLen2(x, y, z) < Gmax * Gmax
\* vgk.length() <= Gmax__
InCutoff(x, y, z) == Gmax >= 0 /\ GkLen2(x, y, z) <= Gmax * Gmax

-----------------------------------------------------------------------------
(* z_column_descriptor and block_data_descriptor.                          *)

\* offset is assigned by calc_offsets; -1 stands for "not assigned yet"
z_column_descriptor(x, y, z) == [x |-> x, y |-> y, z |-> z, offset |-> -1]

\* block_data_descriptor(n): n counts and n offsets, all zero
block_data_descriptor(n) ==
    [counts |-> [i \in 1..n |-> 0], offsets |-> [i \in 1..n |-> 0]]

\* the default-constructed descriptor
EmptyDescriptor == [counts |-> <<>>, offsets |-> <<>>]

\* block_data_descriptor::calc_offsets: exclusive prefix sums of the counts
ExclusivePrefix(counts, i) == SumTo(counts, i - 1)

calc_block_offsets(d) ==
    [d EXCEPT !.offsets = [i \in DOMAIN d.counts |-> ExclusivePrefix(d.counts, i)]]

-----------------------------------------------------------------------------
(* Enumeration of the z-columns (constructor, first double loop).          *)

\* variant with a fault: the test for the {x=0,y=0} stick is left out
zmax_of_any(i, j) == grid_size(2) - 1

\* largest FFT z-coordinate scanned for column (i, j)
zmax_of(i, j) ==
    IF reduce_gvec /\ i = 0 /\ j = 0 THEN limits(2).second ELSE grid_size(2) - 1

\* variant with a fault: the loop runs from iz = zmax down to 0
zcol_of_descending(i, j) ==
    LET scan == [n \in 1..(zmax_of(i, j) + 1) |-> gvec_by_coord(zmax_of(i, j) + 1 - n, 2)]
        Test(k) == InCutoff(i, j, k)
    IN  SelectSeq(scan, Test)

\* the z-indices of column (i, j) inside the cutoff, in the order iz = 0, 1, ...
zcol_of(i, j) ==
    LET scan == [n \in 1..(zmax_of(i, j) + 1) |-> gvec_by_coord(n - 1, 2)]
        Test(k) == InCutoff(i, j, k)
    IN  SelectSeq(scan, Test)

\* variant with a fault: the mark of (-i, -j) is not made
MarkNothing(nz, a, b) == nz

\* variant with a fault: (-i, j) is marked in place of (-i, -j)
MarkMirrorInX(nz, a, b) == nz \cup {<<a, -b>>}

(* non_zero_columns(a, b) = 1.  The table is the set of its cells holding  *)
(* 1.  An index pair outside the box is an out-of-bounds write: a build    *)
(* with the index assertions of mdarray aborts (see Enumerate); without    *)
(* them the write goes to the linear position offset + a + b * ld of the   *)
(* column-major buffer, which is another cell of the table or memory       *)
(* outside it.                                                             *)
MarkColumn(nz, a, b) ==
    IF InBoxXY(a, b) THEN nz \cup {<<a, b>>}
    ELSE LET nx  == grid_size(0)
             lin == (a - limits(0).first) + (b - limits(1).first) * nx
         IN  IF lin >= 0 /\ lin < nx * grid_size(1)
             THEN nz \cup {<<limits(0).first + (lin % nx), limits(1).first + (lin \div nx)>>}
             ELSE nz

\* body of the double loop for one (i, j); st = [cols, ngv, nz, oob]
EnumBody(i, j, st) ==
    LET zc == zcol_of(i, j)
    IN  IF Len(zc) > 0 /\ <<i, j>> \notin st.nz
        THEN [cols |-> Append(st.cols, z_column_descriptor(i, j, zc)),
              ngv  |-> st.ngv + Len(zc),
              nz   |-> IF reduce_gvec
                       THEN MarkColumn(st.nz \cup {<<i, j>>}, -i, -j)
                       ELSE st.nz \cup {<<i, j>>},
              oob  |-> st.oob \/ (reduce_gvec /\ ~InBoxXY(-i, -j))]
        ELSE st

\* the double loop: n counts the (i, j) pairs, i outer, j inner
RECURSIVE EnumLoop(_, _)
EnumLoop(n, st) ==
    IF n = grid_size(0) * grid_size(1) THEN st
    ELSE EnumLoop(n + 1, EnumBody(limits(0).first + (n \div grid_size(1)),
                                  limits(1).first + (n % grid_size(1)), st))

Enumerated == EnumLoop(0, [cols |-> <<>>, ngv |-> 0, nz |-> {}, oob |-> FALSE])

-----------------------------------------------------------------------------
(* Column (0, 0) to the front, then std::sort of the rest by decreasing    *)
(* size.                                                                   *)

\* position (1-based) of the first column with x = y = 0, 0 if there is none
FirstZeroColumn(cols) ==
    LET hits == {i \in DOMAIN cols : cols[i].x = 0 /\ cols[i].y = 0}
    IN  IF hits = {} THEN 0 ELSE CHOOSE i \in hits : \A h \in hits : i <= h

\* variant with a fault: the loop that looks for column (0, 0) is left out
KeepEnumerationOrder(cols) == cols

\* std::swap(z_columns_[i], z_columns_[0]) for the first such i
SwapZeroFirst(cols) ==
    LET p == FirstZeroColumn(cols)
    IN  IF p = 0 THEN cols
        ELSE [i \in DOMAIN cols |-> IF i = 1 THEN cols[p] ELSE IF i = p THEN cols[1] ELSE cols[i]]

Reverse(s) == [i \in DOMAIN s |-> s[Len(s) + 1 - i]]

\* c goes in front of the first column that is not larger than it
RECURSIVE InsertBySize(_, _)
InsertBySize(c, sorted) ==
    IF sorted = <<>> THEN <<c>>
    ELSE IF Len(sorted[1].z) <= Len(c.z) THEN <<c>> \o sorted
         ELSE <<sorted[1]>> \o InsertBySize(c, Tail(sorted))

\* variant with a fault: sort by increasing size
RECURSIVE SortBySizeAscending(_)
SortBySizeAscending(s) ==
    IF s = <<>> THEN <<>> ELSE Reverse(InsertBySize(s[1], Reverse(SortBySizeAscending(Tail(s)))))

\* sort by decreasing size, columns of equal size in their order in s
RECURSIVE SortBySize(_)
SortBySize(s) ==
    IF s = <<>> THEN <<>> ELSE InsertBySize(s[1], SortBySize(Tail(s)))

(* std::sort leaves the order of columns of equal size unspecified.  The   *)
(* model tries two of the orders it may produce: equal columns in their    *)
(* order of discovery ("keep") and in the opposite order ("flip").         *)
TieOrders == {"keep", "flip"}

\* variant with a fault: the call of std::sort is left out
UnsortedTail(cols, tie) == cols

SortedTail(cols, tie) ==
    LET tail == Tail(cols)
    IN  <<cols[1]>> \o SortBySize(IF tie = "flip" THEN Reverse(tail) ELSE tail)

-----------------------------------------------------------------------------
(* Distribution of the columns over the ranks (constructor, second loop).  *)

\* variant with a fault: the list is resized and std::iota is not called
ZeroFilled(n) == [i \in 1..n |-> 0]

\* ranks.resize(n); std::iota(ranks.begin(), ranks.end(), 0)
Iota(n) == [i \in 1..n |-> i - 1]

\* variant with a fault: the last rank of the list whose count is minimal
LastMinPos(rs, counts) ==
    CHOOSE p \in DOMAIN rs :
        /\ \A q \in DOMAIN rs : counts[rs[p] + 1] <= counts[rs[q] + 1]
        /\ \A q \in DOMAIN rs : q > p => counts[rs[q] + 1] > counts[rs[p] + 1]

\* position in rs of std::min_element(rs, counts[a] < counts[b]): the first
\* rank of the list whose count is minimal
MinElementPos(rs, counts) ==
    CHOOSE p \in DOMAIN rs :
        /\ \A q \in DOMAIN rs : counts[rs[p] + 1] <= counts[rs[q] + 1]
        /\ \A q \in DOMAIN rs : q < p => counts[rs[q] + 1] > counts[rs[p] + 1]

\* variant with a fault: the list is overwritten
AssignColumn(local, r, col) == [local EXCEPT ![r + 1] = <<col>>]

\* zcols_local[r].push_back(col)
PushColumn(local, r, col) == [local EXCEPT ![r + 1] = Append(@, col)]

\* variant with a fault: the rank found is not taken out of the search
EraseNothing(rs, p) == rs

\* ranks.erase(position p)
Erase(rs, p) == SubSeq(rs, 1, p - 1) \o SubSeq(rs, p + 1, Len(rs))

\* the list searched in this iteration: refilled with 0, 1, ... when empty
RanksToSearch(rs) == IF rs = <<>> THEN Iota(num_ranks) ELSE rs

-----------------------------------------------------------------------------
(* Full index and reverse mapping.                                         *)

\* number of low bits of the full index that hold the position in a column
PosBits == 12
PosRange == 2 ^ PosBits

\* variant with a fault: shift by 2 bits
PackIndexShort(i, j) == i * 4 + j

\* (i << 12) + j
PackIndex(i, j) == i * PosRange + j

\* gvec_full_index_ for a column list: ig counts in (column, position) order
RECURSIVE FullIndexFrom(_, _)
FullIndexFrom(cols, i) ==
    IF i = Len(cols) THEN <<>>
    ELSE [j \in 1..Len(cols[i + 1].z) |-> PackIndex(i, j - 1)] \o FullIndexFrom(cols, i + 1)

\* gvec_index_by_xy_: (x, y) |-> <<first G-vector index, size of the z-stick>>
IndexByXY(cols) ==
    [xy \in BoxXY |->
        IF \E i \in DOMAIN cols : <<cols[i].x, cols[i].y>> = xy
        THEN LET i == CHOOSE i \in DOMAIN cols :
                          /\ <<cols[i].x, cols[i].y>> = xy
                          /\ \A h \in DOMAIN cols :
                                 <<cols[h].x, cols[h].y>> = xy => h <= i
             IN  <<SumSeq([h \in 1..(i - 1) |-> Len(cols[h].z)]), Len(cols[i].z)>>
        ELSE <<-1, -1>>]

\* gvec_by_full_index on a given column list
gvec_by_full_index_in(cols, idx) ==
    LET j == idx % PosRange
        i == idx \div PosRange
    IN  <<cols[i + 1].x, cols[i + 1].y, cols[i + 1].z[j + 1]>>

gvec_by_full_index(idx) == gvec_by_full_index_in(z_columns, idx)

\* variant with a fault: the z component is not tested
FirstGvecNotZeroXY(g0) == g0[1] # 0 \/ g0[2] # 0

\* variant with a fault: the check is removed
FirstGvecNotChecked(g0) == FALSE

\* g0[0] || g0[1] || g0[2]
FirstGvecNotZero(g0) == g0[1] # 0 \/ g0[2] # 0 \/ g0[3] # 0

\* Gvec::gvec
gvec(ig) == gvec_by_full_index(At0(gvec_full_index, ig))

-----------------------------------------------------------------------------
(* G-shells.                                                               *)

(* size_t(gk.length() * 1e10).  The factor 1e10 is beyond the integers of  *)
(* the model checker; LenScale stands for it.  The lengths of the model    *)
(* are sqrt(q) / 2 for integers q < 2500, which both factors map to        *)
(* different keys for different q, in the order of q.                      *)
LenScale == 1000

\* floor(sqrt(v)) by bisection on [lo, hi]
RECURSIVE ISqrtIn(_, _, _)
ISqrtIn(v, lo, hi) ==
    IF lo >= hi THEN lo
    ELSE LET mid == (lo + hi + 1) \div 2
         IN  IF mid * mid <= v THEN ISqrtIn(v, mid, hi) ELSE ISqrtIn(v, lo, mid - 1)

ISqrt(v) == ISqrtIn(v, 0, 46340)

\* variant with a fault: the length is divided by the factor
ShellKeyScaledDown(q) == ISqrt(q) \div (2 * LenScale)

\* the key of a vector with |2 (G + k)_cart|^2 = q: floor(sqrt(q) / 2 * LenScale)
ShellKey(q) == ISqrt(q * (LenScale \div 2) * (LenScale \div 2))

\* key of the G+k vector of index ig in the tables (cols, full)
GkKey(cols, full, ig) ==
    LET g == gvec_by_full_index_in(cols, At0(full, ig))
    IN  ShellKey(GkLen2(g[1], g[2], g[3]))

\* variant with a fault: every vector is filed under the key of vector 0
ShellKeysOfFirst(cols, full) == [n \in 1..Len(full) |-> GkKey(cols, full, 0)]

\* the map gsh, as the sequence of the keys of the vectors 0, 1, ...
ShellKeys(cols, full) == [n \in 1..Len(full) |-> GkKey(cols, full, n - 1)]

\* variant with a fault: the map is iterated from its last key to its first
ShellOfKeyDescending(K, k) == Cardinality({h \in K : h > k})

\* number of keys of the map below k: the shell id the iteration gives k
ShellOfKey(K, k) == Cardinality({h \in K : h < k})

-----------------------------------------------------------------------------
(* The tables of the FFT communicator: build_fft_distr, calc_offsets,      *)
(* pile_gvec.                                                              *)

\* the communicators tried: every size up to MaxRanks, this process being
\* the first or the last rank of it
Comms == UNION {{[size |-> f, rank |-> p] : p \in {0, f - 1}} : f \in 1..MaxRanks}

\* before the communicator argument is first read
NoComm == [size |-> 0, rank |-> 0]

\* variant with a fault: the inner loop starts at i = 1
SkipFirstOfGroup(counts, rank, nrc) ==
    SumSeq([i \in 1..(nrc - 1) |-> counts[rank * nrc + i + 1]])
\* sum of counts[r] for the nrc fine-grained ranks r = rank * nrc + i
SumOfGroup(counts, rank, nrc) ==
    SumSeq([i \in 1..nrc |-> counts[rank * nrc + (i - 1) + 1]])

\* variant with a fault: the calls of calc_offsets() are left out
fft_distr_without_offsets(distr, size) ==
    [counts  |-> [f \in 1..size |-> SumOfGroup(distr.counts, f - 1, num_ranks \div size)],
     offsets |-> [f \in 1..size |-> 0]]

\* build_fft_distr, for a communicator size that divides num_ranks
fft_distr_of(distr, size) ==
    calc_block_offsets(
        [counts  |-> [f \in 1..size |-> SumOfGroup(distr.counts, f - 1, num_ranks \div size)],
         offsets |-> [f \in 1..size |-> 0]])

\* variant with a fault: offs is stored in the field x of the column
RECURSIVE OffsetsOfRankIntoX(_, _, _, _, _)
OffsetsOfRankIntoX(cols, first, num_zcol_local, i, offs) ==
    IF i = num_zcol_local THEN [cols |-> cols, offs |-> offs]
    ELSE LET icl == first + i
         IN  OffsetsOfRankIntoX([cols EXCEPT ![icl + 1].x = offs],
                                first, num_zcol_local, i + 1, offs + Len(cols[icl + 1].z))

\* variant with a fault: an offset that is already assigned is kept
RECURSIVE OffsetsOfRankOnce(_, _, _, _, _)
OffsetsOfRankOnce(cols, first, num_zcol_local, i, offs) ==
    IF i = num_zcol_local THEN [cols |-> cols, offs |-> offs]
    ELSE LET icl == first + i
         IN  OffsetsOfRankOnce([cols EXCEPT ![icl + 1].offset = IF @ = -1 THEN offs ELSE @],
                               first, num_zcol_local, i + 1, offs + Len(cols[icl + 1].z))

\* variant with a fault: offs is increased before it is stored
RECURSIVE OffsetsOfRankInclusive(_, _, _, _, _)
OffsetsOfRankInclusive(cols, first, num_zcol_local, i, offs) ==
    IF i = num_zcol_local THEN [cols |-> cols, offs |-> offs]
    ELSE LET icl == first + i
         IN  OffsetsOfRankInclusive(
                 [cols EXCEPT ![icl + 1].offset = offs + Len(cols[icl + 1].z)],
                 first, num_zcol_local, i + 1, offs + Len(cols[icl + 1].z))

\* the inner loop of Gvec::calc_offsets for one FFT rank: columns
\* first, first + 1, ... get the running sum offs of the sizes before them;
\* the result is the column list and the final offs
RECURSIVE OffsetsOfRank(_, _, _, _, _)
OffsetsOfRank(cols, first, num_zcol_local, i, offs) ==
    IF i = num_zcol_local THEN [cols |-> cols, offs |-> offs]
    ELSE LET icl == first + i
         IN  OffsetsOfRank([cols EXCEPT ![icl + 1].offset = offs],
                           first, num_zcol_local, i + 1, offs + Len(cols[icl + 1].z))

\* Gvec::calc_offsets: the outer loop over the FFT ranks rank, rank + 1, ...;
\* ok is the conjunction of assert(offs == gvec_distr_fft_.counts[rank])
RECURSIVE CalcOffsetsFrom(_, _, _, _, _)
CalcOffsetsFrom(cols, zfft, gfft, rank, ok) ==
    IF rank = Len(zfft.counts) THEN [cols |-> cols, ok |-> ok]
    ELSE LET done == OffsetsOfRank(cols, zfft.offsets[rank + 1], zfft.counts[rank + 1], 0, 0)
         IN  CalcOffsetsFrom(done.cols, zfft, gfft, rank + 1,
                             ok /\ done.offs = gfft.counts[rank + 1])

calc_offsets(cols, zfft, gfft) == CalcOffsetsFrom(cols, zfft, gfft, 0, TRUE)

\* variant with a fault: the ranks of the group are taken from the last to the
\* first
fft_slab_reversed(distr, comm) ==
    LET nrc == num_ranks \div comm.size
    IN  calc_block_offsets(
            [counts  |-> [i \in 1..nrc |-> distr.counts[comm.rank * nrc + (nrc - i) + 1]],
             offsets |-> [i \in 1..nrc |-> 0]])

\* pile_gvec: the slab table of FFT rank rank_row
fft_slab_of(distr, comm) ==
    LET nrc == num_ranks \div comm.size
    IN  calc_block_offsets(
            [counts  |-> [i \in 1..nrc |-> distr.counts[comm.rank * nrc + (i - 1) + 1]],
             offsets |-> [i \in 1..nrc |-> 0]])

\* assert(offsets.back() + counts.back() == gvec_distr_fft_.counts[rank_row])
SlabAssertion(slab, gfft, comm) ==
    /\ Len(slab.counts) > 0
    /\ slab.offsets[Len(slab.offsets)] + slab.counts[Len(slab.counts)]
           = gfft.counts[comm.rank + 1]

\* variant with a fault: the test is left out
AnyNumberOfRanks(size) == FALSE

\* num_ranks_ != nrc * fft_comm_->size(), with nrc = num_ranks_ / size
WrongNumberOfRanks(size) == num_ranks # (num_ranks \div size) * size

(* build_fft_distr(); calc_offsets(); pile_gvec() under communicator comm, *)
(* the common tail of the constructor and of prepare().                    *)
FftTables(comm) ==
    /\ fft_comm' = comm
    /\ IF WrongNumberOfRanks(comm.size)
       THEN /\ gvec_distr_fft' = block_data_descriptor(comm.size)
            /\ zcol_distr_fft' = block_data_descriptor(comm.size)
            /\ pc' = "terminated"
            /\ msg' = "wrong number of MPI ranks"
            /\ UNCHANGED <<z_columns, gvec_fft_slab>>
       ELSE LET gfft == fft_distr_of(gvec_distr, comm.size)
                zfft == fft_distr_of(zcol_distr, comm.size)
                slab == fft_slab_of(gvec_distr, comm)
            IN  /\ gvec_distr_fft' = gfft
                /\ zcol_distr_fft' = zfft
                /\ z_columns' = calc_offsets(z_columns, zfft, gfft).cols
                /\ IF ~calc_offsets(z_columns, zfft, gfft).ok
                   THEN /\ pc' = "crashed"
                        /\ msg' = "assertion failed"
                        /\ UNCHANGED gvec_fft_slab
                   ELSE /\ gvec_fft_slab' = slab
                        /\ IF ~SlabAssertion(slab, gfft, comm)
                           THEN pc' = "crashed" /\ msg' = "assertion failed"
                           ELSE pc' = "done" /\ msg' = msg

-----------------------------------------------------------------------------
(* The state machine.  pc follows the constructor: "enumerate", "sort",    *)
(* "distribute", "shells", then "done" (a constructed Gvec, on which       *)
(* prepare() may be called), or "terminated" (TERMINATE was called) or     *)
(* "crashed" (abnormal end without a message of the program).              *)

\* the grid boxes tried: the cubic ones and two with unequal sides
GridBoxes == {<<n, n, n>> : n \in 1..MaxGrid} \cup {<<2, 3, 4>>, <<4, 3, 1>>}

Init ==
    /\ fft_box \in GridBoxes
    /\ \E s \in Setups :
           /\ lattice_vectors = s[1]
           /\ vk = s[2]
           /\ Gmax = s[3]
    /\ reduce_gvec \in BOOLEAN
    /\ num_ranks \in 1..MaxRanks
    /\ fft_comm = NoComm
    /\ num_gvec = 0
    /\ z_columns = <<>>
    /\ gvec_distr = EmptyDescriptor
    /\ zcol_distr = EmptyDescriptor
    /\ gvec_full_index = <<>>
    /\ gvec_index_by_xy = <<>>
    /\ gvec_shell = <<>>
    /\ gvec_shell_len = <<>>
    /\ num_gvec_shells = 0
    /\ gvec_distr_fft = EmptyDescriptor
    /\ zcol_distr_fft = EmptyDescriptor
    /\ gvec_fft_slab = EmptyDescriptor
    /\ zcols_local = <<>>
    /\ ranks = <<>>
    /\ icol = 0
    /\ pc = "enumerate"
    /\ msg = ""
    /\ prepared = FALSE

(* Constructor, the double loop over (i, j).  With reduction on and a box  *)
(* that is not symmetric about the origin the mark of (-i, -j) can fall    *)
(* outside non_zero_columns: the build then either aborts on the index     *)
(* assertion or goes on with the stray write (MarkColumn).                 *)
Enumerate ==
    /\ pc = "enumerate"
    /\ \/ /\ z_columns' = Enumerated.cols
          /\ num_gvec' = Enumerated.ngv
          /\ pc' = "sort"
          /\ msg' = msg
       \/ /\ Enumerated.oob
          /\ pc' = "crashed"
          /\ msg' = "index out of bounds"
          /\ UNCHANGED <<z_columns, num_gvec>>
    /\ UNCHANGED <<construction, fft_comm, gvec_distr, zcol_distr, gvec_full_index,
                   gvec_index_by_xy, gvec_shell, gvec_shell_len, num_gvec_shells,
                   gvec_distr_fft, zcol_distr_fft, gvec_fft_slab,
                   zcols_local, ranks, icol>>

(* Constructor: column (0, 0) to the front, sort of the rest, and the      *)
(* set-up of the distribution loop.  With no column at all the range       *)
(* [begin() + 1, end()) handed to std::sort is invalid and element 0 of    *)
(* the empty index table is read afterwards: undefined behaviour, which    *)
(* ends in a fault or, if the read gives a non-zero triple, in TERMINATE.  *)
SortColumns ==
    /\ pc = "sort"
    /\ IF z_columns = <<>>
       THEN /\ \/ pc' = "crashed" /\ msg' = "invalid memory access"
               \/ pc' = "terminated" /\ msg' = "first G-vector is not zero"
            /\ UNCHANGED <<z_columns, gvec_distr, zcol_distr, zcols_local>>
       ELSE /\ \E tie \in TieOrders :
                   z_columns' = SortedTail(SwapZeroFirst(z_columns), tie)
            /\ gvec_distr' = block_data_descriptor(num_ranks)
            /\ zcol_distr' = block_data_descriptor(num_ranks)
            /\ zcols_local' = [r \in 1..num_ranks |-> <<>>]
            /\ pc' = "distribute"
            /\ msg' = msg
    /\ UNCHANGED <<construction, fft_comm, num_gvec, gvec_full_index,
                   gvec_index_by_xy, gvec_shell, gvec_shell_len, num_gvec_shells,
                   gvec_distr_fft, zcol_distr_fft, gvec_fft_slab, ranks, icol>>

(* Constructor: one iteration of the distribution loop, for column icol.   *)
DistributeColumn ==
    /\ pc = "distribute"
    /\ icol < Len(z_columns)
    /\ LET rs  == RanksToSearch(ranks)
           p   == MinElementPos(rs, gvec_distr.counts)
           r   == rs[p]
           col == At0(z_columns, icol)
       IN  /\ zcols_local' = PushColumn(zcols_local, r, col)
           /\ zcol_distr' = [zcol_distr EXCEPT !.counts[r + 1] = @ + 1]
           /\ gvec_distr' = [gvec_distr EXCEPT !.counts[r + 1] = @ + Len(col.z)]
           /\ ranks' = Erase(rs, p)
    /\ icol' = icol + 1
    /\ UNCHANGED <<construction, fft_comm, num_gvec, z_columns, gvec_full_index,
                   gvec_index_by_xy, gvec_shell, gvec_shell_len, num_gvec_shells,
                   gvec_distr_fft, zcol_distr_fft, gvec_fft_slab, pc, msg>>

(* Constructor, after the distribution loop: the offsets, the new order    *)
(* of the columns, the full index with its reverse mapping and the check   *)
(* of the first G-vector.                                                  *)
BuildIndex ==
    /\ pc = "distribute"
    /\ icol = Len(z_columns)
    /\ gvec_distr' = calc_block_offsets(gvec_distr)
    /\ zcol_distr' = calc_block_offsets(zcol_distr)
    /\ z_columns' = Flatten(zcols_local)
    /\ gvec_index_by_xy' = IndexByXY(z_columns')
    /\ gvec_full_index' = FullIndexFrom(z_columns', 0)
    /\ IF FirstGvecNotZero(gvec_by_full_index_in(z_columns', At0(gvec_full_index', 0)))
       THEN pc' = "terminated" /\ msg' = "first G-vector is not zero"
       ELSE pc' = "shells" /\ msg' = msg
    /\ UNCHANGED <<construction, fft_comm, num_gvec, gvec_shell, gvec_shell_len,
                   num_gvec_shells, gvec_distr_fft, zcol_distr_fft, gvec_fft_slab,
                   zcols_local, ranks, icol>>

(* Constructor: the G-shells, then the tables of the FFT communicator.     *)
(* The communicator argument is not read before build_fft_distr, so it is  *)
(* drawn here.  keys is the one value of the key sequence and K the one    *)
(* value of the key set of the map gsh.                                    *)
FindShells ==
    /\ pc = "shells"
    /\ \E keys \in {ShellKeys(z_columns, gvec_full_index)} :
       \E K \in {Range(keys)} :
           /\ num_gvec_shells' = Cardinality(K)
           /\ gvec_shell' = [n \in DOMAIN keys |-> ShellOfKey(K, keys[n])]
           /\ gvec_shell_len' =
                  [n \in 1..Cardinality(K) |-> CHOOSE k \in K : ShellOfKey(K, k) = n - 1]
    /\ \E comm \in Comms : FftTables(comm)
    /\ UNCHANGED <<construction, num_gvec, gvec_distr, zcol_distr, gvec_full_index,
                   gvec_index_by_xy, zcols_local, ranks, icol>>

(* Gvec::prepare(fft_comm__) on a constructed Gvec; it may be called any   *)
(* number of times.                                                        *)
prepare ==
    /\ pc = "done"
    /\ prepared' = TRUE
    /\ \E comm \in Comms : FftTables(comm)
    /\ UNCHANGED <<inputs, num_gvec, gvec_distr, zcol_distr, gvec_full_index,
                   gvec_index_by_xy, gvec_shell, gvec_shell_len, num_gvec_shells,
                   zcols_local, ranks, icol>>

Next ==
    \/ Enumerate
    \/ SortColumns
    \/ DistributeColumn
    \/ BuildIndex
    \/ FindShells
    \/ prepare

Spec == Init /\ [][Next]_vars

-----------------------------------------------------------------------------
(* Accessors of a Gvec and shorthands of the properties.                   *)

num_zcol == Len(z_columns)

zcol(idx) == At0(z_columns, idx)

gvec_count(rank) == At0(gvec_distr.counts, rank)

\* variant with a fault: the count is returned
gvec_offset_as_count(rank) == At0(gvec_distr.counts, rank)

gvec_offset(rank) == At0(gvec_distr.offsets, rank)

Ranks == 0..(num_ranks - 1)

\* a column without its offset field
Strip(c) == <<c.x, c.y, c.z>>

\* the columns of a list, without their offset fields
StripAll(cols) == {Strip(cols[i]) : i \in DOMAIN cols}

\* size of the largest column of the list, 0 for the empty list
MaxColumnSize(cols) ==
    IF cols = <<>> THEN 0
    ELSE LET sizes == {Len(cols[i].z) : i \in DOMAIN cols}
         IN  CHOOSE m \in sizes : \A n \in sizes : n <= m

MaxCount == CHOOSE m \in Range(gvec_distr.counts) : \A n \in Range(gvec_distr.counts) : n <= m
MinCount == CHOOSE m \in Range(gvec_distr.counts) : \A n \in Range(gvec_distr.counts) : m <= n

\* the distribution loop and the reordering are over
Distributed == pc \in {"shells", "done"}

\* column index and position packed in the full index of vector ig
ColumnOf(ig) == At0(gvec_full_index, ig) \div PosRange
PositionOf(ig) == At0(gvec_full_index, ig) % PosRange

\* number of vectors in the columns in front of column i (0-based)
VectorsBefore(i) == SumTo([h \in DOMAIN z_columns |-> Len(z_columns[h].z)], i)

\* the local list (rank, 1-based position) pairs that hold column c
HoldersOf(c) ==
    UNION {{<<r, p>> : p \in {q \in DOMAIN zcols_local[r] :
                                  Strip(zcols_local[r][q]) = Strip(c)}} :
           r \in DOMAIN zcols_local}

-----------------------------------------------------------------------------
(* C1.  Whenever the constructor has completed, and after any number of    *)
(* prepare() calls, the vector of global index 0 is the triple (0, 0, 0).  *)
Thm_C1 == pc = "done" => gvec(0) = <<0, 0, 0>>

\* a Gvec with a k-offset and several vectors, after prepare() calls
Wit_C1 ==
    /\ pc = "done"
    /\ prepared
    /\ vk # <<0, 0, 0>>
    /\ num_gvec > 1
    /\ gvec(0) = <<0, 0, 0>>

(* C2.  The distributor assigns every column to exactly one rank and never *)
(* splits one.  While the loop runs, each of the icol columns handled so   *)
(* far is held by exactly one local list, once, and the per-rank counts    *)
(* are the number of columns and of their vectors in that list; the loop   *)
(* index never passes the end of the list.  After the reordering the       *)
(* column list is a permutation of the enumerated columns (same (x, y),    *)
(* same z-sequence, each once) and the column counts sum to its length.    *)
Thm_C2 ==
    /\ pc = "distribute" =>
        /\ icol <= Len(z_columns)
        /\ \A i \in 1..icol : Cardinality(HoldersOf(z_columns[i])) = 1
        /\ SumSeq(zcol_distr.counts) = icol
    /\ (pc = "distribute" \/ Distributed) =>
        \A r \in DOMAIN zcols_local :
            /\ zcol_distr.counts[r] = Len(zcols_local[r])
            /\ gvec_distr.counts[r] =
                   SumSeq([c \in DOMAIN zcols_local[r] |-> Len(zcols_local[r][c].z)])
    /\ Distributed =>
        \E en \in {Enumerated.cols} :
            /\ Len(z_columns) = Len(en)
            /\ StripAll(z_columns) = StripAll(en)
            /\ Cardinality(StripAll(z_columns)) = Len(z_columns)
            /\ SumSeq(zcol_distr.counts) = Len(z_columns)
            /\ \A i \in DOMAIN z_columns : Cardinality(HoldersOf(z_columns[i])) = 1

\* a finished distribution of at least ten columns over three ranks or more,
\* every rank holding at least two whole columns
Wit_C2 ==
    /\ pc = "done"
    /\ num_ranks >= 3
    /\ num_zcol >= 10
    /\ \A r \in DOMAIN zcols_local : Len(zcols_local[r]) >= 2

(* C3.  On a constructed Gvec, also after prepare() calls, the counts of   *)
(* the fine-grained ranks sum to num_gvec() and so do the aggregated       *)
(* counts of the FFT ranks.                                                *)
Thm_C3 ==
    pc = "done" =>
        /\ SumSeq([r \in 1..num_ranks |-> gvec_count(r - 1)]) = num_gvec
        /\ Len(gvec_distr_fft.counts) = fft_comm.size
        /\ SumSeq(gvec_distr_fft.counts) = num_gvec

\* four ranks grouped into two FFT ranks by a prepare() call, both groups
\* holding vectors
Wit_C3 ==
    /\ pc = "done"
    /\ prepared
    /\ num_ranks = 4
    /\ fft_comm.size = 2
    /\ \A f \in 1..2 : gvec_distr_fft.counts[f] > 0
    /\ SumSeq(gvec_distr_fft.counts) = num_gvec

-----------------------------------------------------------------------------
(* Shorthands for one iteration of the distribution loop, read on a step   *)
(* from a state to its successor.                                          *)

\* the rank whose column count grows in the step
ChosenRank == CHOOSE q \in Ranks : zcol_distr'.counts[q + 1] = zcol_distr.counts[q + 1] + 1

\* the ranks that have no column of the current round of num_ranks columns yet
RanksOfRound == {q \in Ranks : Len(zcols_local[q + 1]) = icol \div num_ranks}

\* rank r holds the fewest vectors among the ranks of S, the lowest id on a tie
FewestAmong(r, S) ==
    /\ r \in S
    /\ \A q \in S : gvec_count(r) <= gvec_count(q)
    /\ \A q \in S : q < r => gvec_count(q) > gvec_count(r)

\* the step takes column icol of the list, gives it whole to ChosenRank and
\* adds its size to the running count of that rank and of no other
TakesNextColumn ==
    /\ \E q \in Ranks : zcol_distr'.counts[q + 1] = zcol_distr.counts[q + 1] + 1
    /\ zcols_local'[ChosenRank + 1] = Append(zcols_local[ChosenRank + 1], zcol(icol))
    /\ \A q \in Ranks :
           gvec_distr'.counts[q + 1] =
               gvec_distr.counts[q + 1] + (IF q = ChosenRank THEN Len(zcol(icol).z) ELSE 0)
    /\ icol' = icol + 1

(* C4, as claimed.  Each column goes to the rank that holds the fewest     *)
(* vectors among all the ranks (the lowest rank id on a tie).              *)
Orig_C4 == [][DistributeColumn => (TakesNextColumn /\ FewestAmong(ChosenRank, Ranks))]_vars

(* C4, amended.  The columns are taken in list order and each goes to the  *)
(* rank that holds the fewest vectors among the ranks that have not yet    *)
(* received a column in the current round of num_ranks columns (the lowest *)
(* rank id on a tie); the size of the column is added to the running       *)
(* count of that rank.                                                     *)
Thm_C4 == [][DistributeColumn => (TakesNextColumn /\ FewestAmong(ChosenRank, RanksOfRound))]_vars

\* in the middle of a round, a rank already served in it holds fewer vectors
\* than every rank still to be served
Wit_C4 ==
    /\ pc = "distribute"
    /\ icol < Len(z_columns)
    /\ ranks # <<>>
    /\ RanksOfRound = Range(ranks)
    /\ \E q \in Ranks \ RanksOfRound : \A r \in RanksOfRound : gvec_count(q) < gvec_count(r)

(* C5.  After the distribution the largest and the smallest per-rank       *)
(* vector count differ by at most the size of the largest column.          *)
Thm_C5 == Distributed => MaxCount - MinCount <= MaxColumnSize(z_columns)

\* 125 vectors over 4 ranks, the counts not all equal
Wit_C5 ==
    /\ pc = "done"
    /\ num_gvec = 125
    /\ num_ranks = 4
    /\ MaxCount > MinCount
    /\ MaxCount - MinCount <= MaxColumnSize(z_columns)

(* C6.  After the distribution no rank holds more than                     *)
(* ceil(num_gvec / num_ranks) + (size of the largest column) vectors.      *)
Thm_C6 ==
    Distributed =>
        \A r \in Ranks :
            gvec_count(r) <= ((num_gvec + num_ranks - 1) \div num_ranks)
                                 + MaxColumnSize(z_columns)

\* a rank above the even share ceil(num_gvec / num_ranks), columns of
\* different sizes
Wit_C6 ==
    /\ pc = "done"
    /\ num_ranks >= 2
    /\ MaxCount > (num_gvec + num_ranks - 1) \div num_ranks
    /\ \E i, h \in DOMAIN z_columns : Len(z_columns[i].z) # Len(z_columns[h].z)

-----------------------------------------------------------------------------
(* C7.  After the distribution the offsets are the exclusive prefix sums   *)
(* of the counts, for the vectors and for the columns; the columns of      *)
(* rank r are the columns of its local list, in the same order, at the     *)
(* column indices starting at the column offset of r; and a global vector  *)
(* index lies in [gvec_offset(r), gvec_offset(r) + gvec_count(r)) exactly  *)
(* when its column is one of these.                                        *)
Thm_C7 ==
    Distributed =>
        \A r \in Ranks :
            /\ gvec_offset(r) = SumTo(gvec_distr.counts, r)
            /\ At0(zcol_distr.offsets, r) = SumTo(zcol_distr.counts, r)
            /\ \A c \in DOMAIN zcols_local[r + 1] :
                   Strip(zcol(At0(zcol_distr.offsets, r) + c - 1)) = Strip(zcols_local[r + 1][c])
            /\ \A ig \in 0..(num_gvec - 1) :
                   (gvec_offset(r) <= ig /\ ig < gvec_offset(r) + gvec_count(r))
                   <=> (/\ At0(zcol_distr.offsets, r) <= ColumnOf(ig)
                        /\ ColumnOf(ig) < At0(zcol_distr.offsets, r) + At0(zcol_distr.counts, r))

\* three ranks or more, each with vectors, the last one not at offset 0
Wit_C7 ==
    /\ pc = "done"
    /\ num_ranks >= 3
    /\ \A r \in Ranks : gvec_count(r) > 0
    /\ gvec_offset(num_ranks - 1) = num_gvec - gvec_count(num_ranks - 1)
    /\ gvec_count(0) # gvec_count(num_ranks - 1)

(* C8.  gvec_full_index_ is a bijection between the global indices and the *)
(* (column, position) pairs with position below the size of the column:    *)
(* the full index of ig decodes (>> 12, & 0xFFF) to the pair ig was built   *)
(* from, every pair is the decoding of its index, and the pairs increase   *)
(* lexicographically with ig (stated for neighbours; the order is          *)
(* transitive, so no two indices share a pair).                            *)
Thm_C8 ==
    Distributed =>
        /\ Len(gvec_full_index) = num_gvec
        /\ \E before \in {[i \in 0..num_zcol |-> VectorsBefore(i)]} :
               /\ \A ig \in 0..(num_gvec - 1) :
                      /\ ColumnOf(ig) < num_zcol
                      /\ PositionOf(ig) < Len(zcol(ColumnOf(ig)).z)
                      /\ ig = before[ColumnOf(ig)] + PositionOf(ig)
               /\ \A i \in 0..(num_zcol - 1) : \A j \in 0..(Len(zcol(i).z) - 1) :
                      /\ before[i] + j < num_gvec
                      /\ ColumnOf(before[i] + j) = i
                      /\ PositionOf(before[i] + j) = j
        /\ \A ig \in 0..(num_gvec - 2) :
               \/ ColumnOf(ig) < ColumnOf(ig + 1)
               \/ ColumnOf(ig) = ColumnOf(ig + 1) /\ PositionOf(ig) < PositionOf(ig + 1)

\* several columns of several entries, the last vector in the last column
Wit_C8 ==
    /\ pc = "done"
    /\ num_zcol >= 5
    /\ num_gvec >= 4 * num_zcol
    /\ ColumnOf(num_gvec - 1) = num_zcol - 1
    /\ PositionOf(num_gvec - 1) >= 3

(* C9.  With symmetry reduction off the vectors gvec(ig) of a constructed  *)
(* Gvec are exactly the triples of the grid box with |M (G + k)| <= Gmax,  *)
(* each once; when the box [-2, 2]^3 is admitted whole with k = 0 there    *)
(* are 125 vectors in 25 columns of 5 entries.                             *)
Thm_C9 ==
    (pc = "done" /\ ~reduce_gvec) =>
        \E G \in {{gvec(ig) : ig \in 0..(num_gvec - 1)}} :
        \E B \in {{g \in BoxXY \X (limits(2).first .. limits(2).second) :
                      Gmax >= 0 /\ GkLen2(g[1][1], g[1][2], g[2]) <= Gmax * Gmax}} :
            /\ G = {<<g[1][1], g[1][2], g[2]>> : g \in B}
            /\ Cardinality(G) = num_gvec
            /\ Len(gvec_full_index) = num_gvec
            /\ (fft_box = <<5, 5, 5>> /\ vk = <<0, 0, 0>> /\ Cardinality(B) = 125) =>
                   /\ num_gvec = 125
                   /\ num_zcol = 25
                   /\ \A i \in DOMAIN z_columns : Len(z_columns[i].z) = 5

\* the box [-2, 2]^3 admitted whole with k = 0
Wit_C9 ==
    /\ pc = "done"
    /\ ~reduce_gvec
    /\ fft_box = <<5, 5, 5>>
    /\ vk = <<0, 0, 0>>
    /\ num_gvec = 125
    /\ num_zcol = 25

\* FFT coordinate of the z-index z
FftCoord(z) == IF z >= 0 THEN z ELSE z + grid_size(2)

(* C10, as claimed.  In every column of a constructed Gvec the z-sequence  *)
(* is strictly increasing.                                                 *)
Orig_C10 ==
    pc = "done" =>
        \A i \in DOMAIN z_columns : \A j \in 1..(Len(z_columns[i].z) - 1) :
            z_columns[i].z[j] < z_columns[i].z[j + 1]

(* C10, amended.  In every column, from its enumeration on, the z-sequence *)
(* is non-empty, lies in the z-range of the box and is strictly increasing *)
(* in the FFT coordinate (z for z >= 0, z + Nz for z < 0): the entries are *)
(* distinct, the non-negative ones come first in increasing order and the  *)
(* negative ones follow in increasing order.                               *)
Thm_C10 ==
    \A i \in DOMAIN z_columns :
        /\ Len(z_columns[i].z) >= 1
        /\ \A j \in DOMAIN z_columns[i].z :
               /\ limits(2).first <= z_columns[i].z[j]
               /\ z_columns[i].z[j] <= limits(2).second
        /\ \A j \in 1..(Len(z_columns[i].z) - 1) :
               FftCoord(z_columns[i].z[j]) < FftCoord(z_columns[i].z[j + 1])

\* a constructed Gvec with a column that holds 0, 1, 2, -2, -1 in this order
Wit_C10 ==
    /\ pc = "done"
    /\ \E i \in DOMAIN z_columns : z_columns[i].z = <<0, 1, 2, -2, -1>>

-----------------------------------------------------------------------------
\* the column is the one with x = y = 0
IsZeroColumn(c) == c.x = 0 /\ c.y = 0

(* C11.  Column (0, 0), when there is one, is at the front of the list the *)
(* distributor works on; the first column handed out goes to rank 0; and   *)
(* after the reordering, in every Gvec whose construction succeeds, column *)
(* index 0 holds the column with (x, y) = (0, 0), which is the first       *)
(* column of rank 0, starts at vector index 0 and is the only such column. *)
Thm_C11 ==
    /\ pc = "distribute" =>
        /\ (\E i \in DOMAIN z_columns : IsZeroColumn(z_columns[i])) => IsZeroColumn(z_columns[1])
        /\ icol >= 1 => Strip(zcols_local[1][1]) = Strip(z_columns[1])
    /\ Distributed =>
        /\ IsZeroColumn(zcol(0))
        /\ Strip(zcols_local[1][1]) = Strip(zcol(0))
        /\ gvec_index_by_xy[<<0, 0>>][1] = 0
        /\ \A i \in 1..(num_zcol - 1) : ~IsZeroColumn(zcol(i))

\* a constructed Gvec on several ranks whose column (0, 0) was not the first
\* one enumerated and is smaller than another column
Wit_C11 ==
    /\ pc = "done"
    /\ num_ranks >= 2
    /\ FirstZeroColumn(Enumerated.cols) > 1
    /\ IsZeroColumn(zcol(0))
    /\ \E i \in 1..(num_zcol - 1) : Len(zcol(i).z) > Len(zcol(0).z)

-----------------------------------------------------------------------------
\* the (x, y) pairs of the columns of the list
ColumnsXY == {<<z_columns[i].x, z_columns[i].y>> : i \in DOMAIN z_columns}

\* the grid box is symmetric about the origin in x and y
SymmetricBoxXY == limits(0).first = -limits(0).second /\ limits(1).first = -limits(1).second

\* some z of the box puts (x, y, z) inside the cutoff
NonEmptyColumn(x, y) == \E z \in limits(2).first .. limits(2).second : InCutoff(x, y, z)

(* C12.  With reduction on, at every point of the construction and after   *)
(* it, the column list holds no two columns (x, y) and (-x, -y) with       *)
(* (x, y) # (0, 0).  With k = 0 and a box symmetric about the origin, once *)
(* the enumeration is over, of every pair {(x, y), (-x, -y)} of the box    *)
(* with a vector inside the cutoff exactly one column is in the list.      *)
Thm_C12 ==
    reduce_gvec =>
        /\ \A xy \in ColumnsXY : xy # <<0, 0>> => <<-xy[1], -xy[2]>> \notin ColumnsXY
        /\ (pc # "enumerate" /\ vk = <<0, 0, 0>> /\ SymmetricBoxXY) =>
               \A xy \in BoxXY :
                   (xy # <<0, 0>> /\ NonEmptyColumn(xy[1], xy[2])) =>
                       (xy \in ColumnsXY) # (<<-xy[1], -xy[2]>> \in ColumnsXY)

\* the box [-2, 2]^3 admitted whole with k = 0 and reduction on: column
\* (0, 0) and one column of each of the 12 pairs
Wit_C12 ==
    /\ pc = "done"
    /\ reduce_gvec
    /\ vk = <<0, 0, 0>>
    /\ fft_box = <<5, 5, 5>>
    /\ Gmax = 40
    /\ num_zcol = 13

-----------------------------------------------------------------------------
\* the z of [lo, limits(2).second] that put (x, y, z) inside the cutoff
ZInCutoff(x, y, lo) == {z \in lo .. limits(2).second : InCutoff(x, y, z)}

(* C13.  In the list as enumerated and in every constructed Gvec: with     *)
(* reduction on, column (0, 0) holds exactly the z >= 0 of the box that    *)
(* pass the cutoff test, each once, and no negative z.  With reduction off *)
(* it holds, like every other column in either mode, exactly the z of the  *)
(* whole z-range of the box that pass the test, each once.                 *)
Thm_C13 ==
    pc \in {"sort", "done"} =>
        \A i \in DOMAIN z_columns :
            \E c \in {z_columns[i]} :
                /\ Len(c.z) = Cardinality(Range(c.z))
                /\ Range(c.z) = ZInCutoff(c.x, c.y,
                                          IF reduce_gvec /\ IsZeroColumn(c) THEN 0 ELSE limits(2).first)

\* reduction on: column (0, 0) is 0, 1, 2 while another column has negative z
Wit_C13 ==
    /\ pc = "done"
    /\ reduce_gvec
    /\ zcol(0).z = <<0, 1, 2>>
    /\ InCutoff(0, 0, -1)
    /\ \E i \in DOMAIN z_columns : \E j \in DOMAIN z_columns[i].z : z_columns[i].z[j] < 0

-----------------------------------------------------------------------------
(* Accessors of the shells.  The code stores shell_len as key * 1e-10; the *)
(* model stores the key, i.e. the length in units of 1 / LenScale.         *)

num_shells == num_gvec_shells

shell(ig) == At0(gvec_shell, ig)

shell_len(igs) == At0(gvec_shell_len, igs)

(* The set of the <<key, shell id>> pairs of the vectors, the key of a      *)
(* vector being size_t(gkvec_cart(ig).length() * 1e10).  qs is the squared *)
(* doubled length of every vector and key the key of every value in qs;    *)
(* each is bound to its one value so that it is computed once.             *)
KeyShellPairs ==
    UNION {UNION {{<<key[qs[n]], shell(n - 1)>> : n \in 1..num_gvec} :
                  key \in {[q \in Range(qs) |-> ShellKey(q)]}} :
           qs \in {[n \in 1..num_gvec |->
                       GkLen2(gvec(n - 1)[1], gvec(n - 1)[2], gvec(n - 1)[3])]}}

\* a larger key has a larger shell id
OrderedByKey(P) == \A p, q \in P : p[1] < q[1] => p[2] < q[2]

(* C14.  In a constructed Gvec shell_len(s) is strictly increasing in s    *)
(* over [0, num_shells()), and of two vectors the one with the smaller     *)
(* length key has the smaller shell id.                                    *)
Thm_C14 ==
    pc = "done" =>
        /\ Len(gvec_shell_len) = num_shells
        /\ \A s \in 0..(num_shells - 2) : shell_len(s) < shell_len(s + 1)
        /\ \E P \in {KeyShellPairs} : OrderedByKey(P)

\* five shells or more, the last vector not in the last shell
Wit_C14 ==
    /\ pc = "done"
    /\ num_shells >= 5
    /\ shell(num_gvec - 1) < num_shells - 1
    /\ shell_len(0) < shell_len(num_shells - 1)

-----------------------------------------------------------------------------
\* shell 0 has length 0 and vector 0 is its only member
ZeroShellIsZeroVector ==
    /\ shell_len(0) = 0
    /\ shell(0) = 0
    /\ \A ig \in 1..(num_gvec - 1) : shell(ig) # 0

(* C15, as claimed.  In every constructed Gvec shell 0 has length 0 and    *)
(* its only member is the zero vector.                                     *)
Orig_C15 == pc = "done" => ZeroShellIsZeroVector

(* C15, amended.  In every Gvec constructed with k = 0 shell 0 has length  *)
(* 0 and its only member is vector 0, the zero vector.  (The shells are    *)
(* shells of |G + k|: with k # 0 shell 0 has the smallest length of G + k, *)
(* which is not 0 and may be shared by several vectors.)                   *)
Thm_C15 == (pc = "done" /\ vk = <<0, 0, 0>>) => (ZeroShellIsZeroVector /\ gvec(0) = <<0, 0, 0>>)

\* k = 0, several shells
Wit_C15 ==
    /\ pc = "done"
    /\ vk = <<0, 0, 0>>
    /\ num_shells >= 3
    /\ num_gvec >= 7
    /\ ZeroShellIsZeroVector

-----------------------------------------------------------------------------
\* equal keys go with equal shell ids and different keys with different ids,
\* and there are as many shells as keys
OneShellPerKey(P) ==
    /\ \A p, q \in P : (p[1] = q[1]) <=> (p[2] = q[2])
    /\ num_shells = Cardinality({p[1] : p \in P})

(* C16.  In a constructed Gvec every vector index has one shell id, in     *)
(* [0, num_shells()); every shell id has a member; two vectors have the    *)
(* same shell id exactly when their length keys are equal; and the number  *)
(* of shells is the number of distinct keys.                               *)
Thm_C16 ==
    pc = "done" =>
        /\ Len(gvec_shell) = num_gvec
        /\ \A ig \in 0..(num_gvec - 1) : 0 <= shell(ig) /\ shell(ig) < num_shells
        /\ Range(gvec_shell) = 0..(num_shells - 1)
        /\ \E P \in {KeyShellPairs} : OneShellPerKey(P)

\* several shells, one of them with six members or more
Wit_C16 ==
    /\ pc = "done"
    /\ num_shells >= 4
    /\ \E s \in 0..(num_shells - 1) :
           Cardinality({ig \in 0..(num_gvec - 1) : shell(ig) = s}) >= 6

-----------------------------------------------------------------------------
\* counts[lo] + ... + counts[hi - 1] for the 0-based ranks lo .. hi - 1
SumOfRanks(counts, lo, hi) == SumTo(counts, hi) - SumTo(counts, lo)

(* C17.  In a constructed Gvec, also after prepare() calls, the FFT size F *)
(* divides R and, with G = R / F, every FFT rank f has as vector count the *)
(* sum of gvec_count(r) and as column count the sum of the column counts   *)
(* over the fine-grained ranks r in [f G, (f + 1) G); the offsets of both  *)
(* tables are the exclusive prefix sums of these counts.                   *)
Thm_C17 ==
    pc = "done" =>
        \E F \in {fft_comm.size} : \E G \in {num_ranks \div fft_comm.size} :
            /\ F * G = num_ranks
            /\ \A t \in {gvec_distr_fft, zcol_distr_fft} :
                   Len(t.counts) = F /\ Len(t.offsets) = F
            /\ \A f \in 0..(F - 1) :
                   /\ At0(gvec_distr_fft.counts, f) = SumOfRanks(gvec_distr.counts, f * G, (f + 1) * G)
                   /\ At0(zcol_distr_fft.counts, f) = SumOfRanks(zcol_distr.counts, f * G, (f + 1) * G)
                   /\ At0(gvec_distr_fft.offsets, f) = SumTo(gvec_distr_fft.counts, f)
                   /\ At0(zcol_distr_fft.offsets, f) = SumTo(zcol_distr_fft.counts, f)

\* four ranks in two groups of two, the groups with different counts and
\* rank 0 and rank 2 with different counts
Wit_C17 ==
    /\ pc = "done"
    /\ num_ranks = 4
    /\ fft_comm.size = 2
    /\ gvec_distr_fft.counts[1] # gvec_distr_fft.counts[2]
    /\ zcol_distr_fft.counts[1] # zcol_distr_fft.counts[2]
    /\ gvec_distr_fft.offsets[2] = gvec_count(0) + gvec_count(1)

-----------------------------------------------------------------------------
(* C18.  A step of the constructor or of prepare() that reads a            *)
(* communicator whose size does not divide R ends in TERMINATE with the    *)
(* message "wrong number of MPI ranks"; it leaves the FFT tables sized and *)
(* zeroed, nothing aggregated, and does not touch the column offsets or    *)
(* the slab table.  (Every step taken from "shells" or "done" reads a      *)
(* communicator: it is the tail of the constructor or a prepare() call.)   *)
Thm_C18 ==
    [][(pc \in {"shells", "done"} /\ num_ranks % fft_comm'.size # 0) =>
           /\ pc' = "terminated"
           /\ msg' = "wrong number of MPI ranks"
           /\ gvec_distr_fft' = block_data_descriptor(fft_comm'.size)
           /\ zcol_distr_fft' = block_data_descriptor(fft_comm'.size)
           /\ gvec_fft_slab' = gvec_fft_slab
           /\ z_columns' = z_columns]_vars

\* prepare() with three FFT ranks on a Gvec of four ranks
Wit_C18 ==
    /\ pc = "terminated"
    /\ msg = "wrong number of MPI ranks"
    /\ prepared
    /\ num_ranks = 4
    /\ fft_comm.size = 3
    /\ SumSeq(gvec_distr_fft.counts) = 0

-----------------------------------------------------------------------------
(* C19.  A prepare() call, whatever its communicator and its outcome,      *)
(* leaves unchanged num_gvec, the order of the column list with the        *)
(* (x, y) and the z-sequence of every column, gvec_full_index_,            *)
(* gvec_index_by_xy_, the shell ids and lengths, and the fine-grained      *)
(* tables gvec_distr_ and zcol_distr_.  (Every step taken from "done" is a *)
(* prepare() call; what it may change is the communicator, the FFT tables, *)
(* the offset fields of the columns and the slab table.)                   *)
Thm_C19 ==
    [][pc = "done" =>
           /\ num_gvec' = num_gvec
           /\ Len(z_columns') = Len(z_columns)
           /\ \A i \in DOMAIN z_columns : Strip(z_columns'[i]) = Strip(z_columns[i])
           /\ gvec_full_index' = gvec_full_index
           /\ gvec_index_by_xy' = gvec_index_by_xy
           /\ gvec_shell' = gvec_shell
           /\ gvec_shell_len' = gvec_shell_len
           /\ num_gvec_shells' = num_gvec_shells
           /\ gvec_distr' = gvec_distr
           /\ zcol_distr' = zcol_distr
           /\ inputs' = inputs]_vars

\* after prepare() with four FFT ranks on a Gvec of four ranks and thirteen
\* columns or more, the second column at offset 0 of its FFT rank
Wit_C19 ==
    /\ pc = "done"
    /\ prepared
    /\ num_ranks = 4
    /\ fft_comm.size = 4
    /\ num_zcol >= 13
    /\ zcol(At0(zcol_distr.offsets, 1)).offset = 0

-----------------------------------------------------------------------------
\* the column list as the enumeration and the distribution leave it: no
\* offset assigned
WithoutOffsets(cols) == [i \in DOMAIN cols |-> [cols[i] EXCEPT !.offset = -1]]

\* the FFT tables, the column list and the slab table are those that the
\* tail of the constructor builds from the fine-grained tables under comm
AsFreshlyConstructed(comm) ==
    \E gfft \in {fft_distr_of(gvec_distr, comm.size)} :
    \E zfft \in {fft_distr_of(zcol_distr, comm.size)} :
        /\ gvec_distr_fft = gfft
        /\ zcol_distr_fft = zfft
        /\ z_columns = calc_offsets(WithoutOffsets(z_columns), zfft, gfft).cols
        /\ gvec_fft_slab = fft_slab_of(gvec_distr, comm)

(* C20.  After the constructor and any number of prepare() calls that end  *)
(* with a communicator of size F dividing R, the FFT tables, the offsets   *)
(* of the columns and the slab table are those of a Gvec freshly           *)
(* constructed with that communicator (the rest of the Gvec does not       *)
(* depend on the communicator); and a prepare() call with the communicator *)
(* already stored changes nothing.                                         *)
Thm_C20 ==
    /\ [](pc = "done" => AsFreshlyConstructed(fft_comm))
    /\ [][(pc = "done" /\ fft_comm' = fft_comm) =>
              UNCHANGED <<gvec_distr_fft, zcol_distr_fft, z_columns, gvec_fft_slab, pc, msg>>]_vars

\* after prepare() calls, two FFT ranks on four ranks, this one the second,
\* its second slab not at offset 0
Wit_C20 ==
    /\ pc = "done"
    /\ prepared
    /\ num_ranks = 4
    /\ fft_comm = [size |-> 2, rank |-> 1]
    /\ gvec_fft_slab.offsets[2] > 0
    /\ AsFreshlyConstructed(fft_comm)

-----------------------------------------------------------------------------
(* C21.  In a constructed Gvec, also after prepare() calls, with p the     *)
(* rank in the FFT communicator and G = R / F, the slab table has G counts *)
(* and G offsets, counts[i] = gvec_count(p G + i), the offsets are the     *)
(* exclusive prefix sums of the counts, and the last offset plus the last  *)
(* count is the vector count of FFT rank p; the build never ends on the    *)
(* assertion of pile_gvec.                                                 *)
Thm_C21 ==
    /\ pc = "done" =>
        \E G \in {num_ranks \div fft_comm.size} : \E p \in {fft_comm.rank} :
            /\ G >= 1
            /\ Len(gvec_fft_slab.counts) = G
            /\ Len(gvec_fft_slab.offsets) = G
            /\ \A i \in 0..(G - 1) :
                   /\ At0(gvec_fft_slab.counts, i) = gvec_count(p * G + i)
                   /\ At0(gvec_fft_slab.offsets, i) = SumTo(gvec_fft_slab.counts, i)
            /\ At0(gvec_fft_slab.offsets, G - 1) + At0(gvec_fft_slab.counts, G - 1)
                   = At0(gvec_distr_fft.counts, p)
    /\ msg # "assertion failed"

\* the second of two FFT ranks on four ranks, its two slabs of different size
Wit_C21 ==
    /\ pc = "done"
    /\ prepared
    /\ num_ranks = 4
    /\ fft_comm = [size |-> 2, rank |-> 1]
    /\ gvec_fft_slab.counts[1] # gvec_fft_slab.counts[2]
    /\ gvec_fft_slab.counts[2] = gvec_count(3)

-----------------------------------------------------------------------------
(* C22.  Once the index tables are built: if the vector of global index 0  *)
(* is not (0, 0, 0), the constructor has ended in TERMINATE with the       *)
(* message "first G-vector is not zero"; no shell and no FFT table has     *)
(* been built and the object never becomes usable.                         *)
Thm_C22 ==
    (gvec_full_index # <<>> /\ gvec(0) # <<0, 0, 0>>) =>
        /\ pc = "terminated"
        /\ msg = "first G-vector is not zero"
        /\ gvec_shell = <<>>
        /\ gvec_distr_fft = EmptyDescriptor
        /\ gvec_fft_slab = EmptyDescriptor
        /\ ~prepared

\* k = (3/2, 0, 0): there is no column (0, 0), the first vector has x # 0
Wit_C22 ==
    /\ pc = "terminated"
    /\ msg = "first G-vector is not zero"
    /\ num_gvec >= 2
    /\ gvec_full_index # <<>>
    /\ \A i \in DOMAIN z_columns : ~IsZeroColumn(z_columns[i])
    /\ gvec(0)[1] # 0

-----------------------------------------------------------------------------
(* C23, as claimed.  When the enumeration admits no vector at all, the     *)
(* constructor ends in TERMINATE with a message.  (The constructor has no  *)
(* test for an empty list: past the enumeration it hands the invalid range *)
(* [begin() + 1, end()) to std::sort and reads entry 0 of the empty index  *)
(* table, which may end the run without any message.)                      *)
Orig_C23 ==
    (pc \notin {"enumerate", "sort"} /\ num_gvec = 0 /\ msg # "index out of bounds") =>
        (pc = "terminated" /\ msg # "")

-----------------------------------------------------------------------------
\* the columns after the first are in order of non-increasing size
TailBySize == \A i \in 2..(Len(z_columns) - 1) : Len(z_columns[i].z) >= Len(z_columns[i + 1].z)

\* column a is discovered before column b: x ascending, then y ascending
DiscoveredBefore(a, b) == a.x < b.x \/ (a.x = b.x /\ a.y < b.y)

(* C24, as claimed.  Before the distribution the columns after the first   *)
(* are in order of non-increasing size and columns of equal size are in    *)
(* their order of discovery.                                               *)
Orig_C24 ==
    pc = "distribute" =>
        /\ TailBySize
        /\ \A i, j \in 2..Len(z_columns) :
               (i < j /\ Len(z_columns[i].z) = Len(z_columns[j].z)) =>
                   DiscoveredBefore(z_columns[i], z_columns[j])

(* C24, amended.  When the distribution starts the list holds the          *)
(* enumerated columns, each once, and until it ends the columns after the  *)
(* first are in order of non-increasing size; the order of columns of      *)
(* equal size is not determined (std::sort is not stable, and the column   *)
(* that column (0, 0) is swapped with leaves its place of discovery).      *)
Thm_C24 ==
    pc = "distribute" =>
        /\ TailBySize
        /\ icol = 0 =>
               \E en \in {Enumerated.cols} :
                   /\ Len(z_columns) = Len(en)
                   /\ StripAll(z_columns) = StripAll(en)

\* a sorted list with columns of several sizes in which two columns of equal
\* size are not in their order of discovery
Wit_C24 ==
    /\ pc = "distribute"
    /\ icol = 0
    /\ TailBySize
    /\ Cardinality({Len(z_columns[i].z) : i \in 2..Len(z_columns)}) >= 2
    /\ \E i, j \in 2..Len(z_columns) :
           /\ i < j
           /\ Len(z_columns[i].z) = Len(z_columns[j].z)
           /\ DiscoveredBefore(z_columns[j], z_columns[i])

-----------------------------------------------------------------------------
(* C25.  In a constructed Gvec, also after prepare() calls, for every FFT  *)
(* rank f: the offset of each of its columns is the sum of the sizes of    *)
(* the columns of f with a smaller global column index (0 for its first    *)
(* column), and the sizes of all its columns sum to the vector count of f, *)
(* i.e. offset plus size of its last column is that count.  No run ends on *)
(* the assertion of calc_offsets.                                          *)
Thm_C25 ==
    /\ pc = "done" =>
        \E before \in {[i \in 0..num_zcol |-> VectorsBefore(i)]} :
            \A f \in 0..(fft_comm.size - 1) :
                \E first \in {At0(zcol_distr_fft.offsets, f)} :
                \E n \in {At0(zcol_distr_fft.counts, f)} :
                    /\ first + n <= num_zcol
                    /\ \A c \in first..(first + n - 1) :
                           zcol(c).offset = before[c] - before[first]
                    /\ before[first + n] - before[first] = At0(gvec_distr_fft.counts, f)
                    /\ n > 0 =>
                           zcol(first + n - 1).offset + Len(zcol(first + n - 1).z)
                               = At0(gvec_distr_fft.counts, f)
    /\ pc = "crashed" => msg # "assertion failed"

\* two FFT ranks on four ranks: the first column of the second FFT rank is
\* not column 0 and has offset 0, its last column has a positive offset
Wit_C25 ==
    /\ pc = "done"
    /\ num_ranks = 4
    /\ fft_comm.size = 2
    /\ zcol_distr_fft.offsets[2] > 0
    /\ zcol_distr_fft.counts[2] >= 2
    /\ zcol(zcol_distr_fft.offsets[2]).offset = 0
    /\ zcol(num_zcol - 1).offset > 0

-----------------------------------------------------------------------------
(* Gvec::index_by_gvec for a triple G of the grid box.  The value is the   *)
(* one computed before assert(ig < num_gvec()).                            *)
index_by_gvec(G) ==
    IF reduce_gvec /\ G[1] = 0 /\ G[2] = 0 /\ G[3] < 0 THEN -1
    ELSE LET ig0 == gvec_index_by_xy[<<G[1], G[2]>>][1]
             offs == IF G[3] >= 0 THEN G[3]
                     ELSE G[3] + gvec_index_by_xy[<<G[1], G[2]>>][2]
         IN  IF ig0 = -1 THEN -1 ELSE ig0 + offs

(* C26, as claimed.  In every constructed Gvec, for any k-vector and       *)
(* lattice, index_by_gvec(gvec(ig)) = ig for every ig in [0, num_gvec()).  *)
Orig_C26 ==
    pc = "done" => \A ig \in 0..(num_gvec - 1) : index_by_gvec(gvec(ig)) = ig

\* the triples of the grid box
BoxTriples ==
    BoxXY \X (limits(2).first .. limits(2).second)

\* the triples held by the columns of the list
GvecSet ==
    UNION {{<<z_columns[i].x, z_columns[i].y, z_columns[i].z[p]>> :
                p \in DOMAIN z_columns[i].z} : i \in DOMAIN z_columns}

(* C27, as claimed.  In every constructed Gvec, for every triple G of the  *)
(* grid box that is not in the enumerated set, index_by_gvec(G) is -1.     *)
Orig_C27 ==
    pc = "done" =>
        \E S \in {GvecSet} :
            \A G \in BoxTriples : <<G[1][1], G[1][2], G[2]>> \notin S =>
                index_by_gvec(<<G[1][1], G[1][2], G[2]>>) = -1

-----------------------------------------------------------------------------
\* Gvec::reduced
reduced == reduce_gvec

\* the grid box is symmetric about the origin in x, y and z
SymmetricBox == SymmetricBoxXY /\ limits(2).first = -limits(2).second

\* the triples of the grid box that pass the cutoff test
BoxTriplesInCutoff == {G \in BoxTriples : InCutoff(G[1][1], G[1][2], G[2])}

(* C28.  With k = 0 and a grid box symmetric about the origin, once the    *)
(* enumeration is over: an unreduced set holds every triple of the box     *)
(* within the cutoff once; a reduced set holds the zero vector once and,   *)
(* of every non-zero triple G within the cutoff, exactly one of G and -G,  *)
(* once, so its num_gvec is (num_gvec of the unreduced set + 1) / 2.       *)
Thm_C28 ==
    (pc \in {"sort", "done"} /\ vk = <<0, 0, 0>> /\ SymmetricBox) =>
        \E S \in {GvecSet} :
        \E U \in {BoxTriplesInCutoff} :
            /\ num_gvec = Cardinality(S)
            /\ ~reduced => S = {<<G[1][1], G[1][2], G[2]>> : G \in U}
            /\ reduced =>
                /\ <<0, 0, 0>> \in S
                /\ \A G \in U : G # <<<<0, 0>>, 0>> =>
                       (<<G[1][1], G[1][2], G[2]>> \in S) # (<<-G[1][1], -G[1][2], -G[2]>> \in S)
                /\ \A g \in S : <<<<g[1], g[2]>>, g[3]>> \in U
                /\ num_gvec = (Cardinality(U) + 1) \div 2

\* a reduced set of 63 of the 125 triples of the 5x5x5 box, with negative z
\* in a column other than (0, 0)
Wit_C28 ==
    /\ pc = "done"
    /\ reduced
    /\ vk = <<0, 0, 0>>
    /\ fft_box = <<5, 5, 5>>
    /\ Cardinality(BoxTriplesInCutoff) = 125
    /\ num_gvec = 63
    /\ \E i \in DOMAIN z_columns :
           /\ ~IsZeroColumn(z_columns[i])
           /\ \E p \in DOMAIN z_columns[i].z : z_columns[i].z[p] < 0

(* C29, as claimed.  With reduction on, for every accepted column (i, j)   *)
(* the pair (-i, -j) lies inside the x and y limits of the grid box, for   *)
(* every grid box, and the marking never addresses non_zero_columns out of *)
(* bounds.                                                                 *)
Orig_C29 ==
    reduced =>
        /\ msg # "index out of bounds"
        /\ \A i \in DOMAIN z_columns : InBoxXY(-z_columns[i].x, -z_columns[i].y)

-----------------------------------------------------------------------------
\* number of columns given to a rank
zcol_count(rank) == At0(zcol_distr.counts, rank)

\* the 1-based block of num_ranks consecutive columns of the sorted list in
\* which the column sits that was handed out as the n-th one (0-based)
BlockOf(n) == (n \div num_ranks) + 1

(* C30.  While the distributor runs, after icol columns: the b-th column   *)
(* of every rank is a column of the b-th block of num_ranks consecutive    *)
(* columns of the sorted list, so each rank has at most one column of      *)
(* every block, exactly one of every full block, and icol % num_ranks      *)
(* ranks have one of the block under way.  After the distribution the      *)
(* per-rank column counts differ by at most 1 between any two ranks.       *)
Thm_C30 ==
    /\ pc = "distribute" =>
         /\ \A q \in Ranks :
                /\ zcol_count(q) = Len(zcols_local[q + 1])
                /\ zcol_count(q) \in {icol \div num_ranks, BlockOf(icol)}
                /\ \A b \in 1..zcol_count(q) :
                       \E n \in 0..(icol - 1) :
                           /\ BlockOf(n) = b
                           /\ zcols_local[q + 1][b] = zcol(n)
         /\ Cardinality({q \in Ranks : zcol_count(q) = BlockOf(icol)}) = icol % num_ranks
    /\ Distributed =>
         /\ \A q, r \in Ranks : zcol_count(q) - zcol_count(r) <= 1
         /\ \A q \in Ranks : zcol_count(q) \in {num_zcol \div num_ranks, BlockOf(num_zcol)}

\* 4 ranks, more than one full block and a last block that is not full:
\* some rank has one column more than another, and fewer vectors
Wit_C30 ==
    /\ Distributed
    /\ num_ranks = 4
    /\ num_zcol > 4
    /\ num_zcol % 4 # 0
    /\ \E q, r \in Ranks :
           /\ zcol_count(q) = zcol_count(r) + 1
           /\ gvec_count(q) < gvec_count(r)

=============================================================================
